---------------------------- MODULE Spec2Model ----------------------------
(***************************************************************************)
(* Figma copy workflow: CSV records -> Word document -> CSV records.       *)
(*                                                                         *)
(* Texts are sequences of characters (one-character strings; "nbsp" stands *)
(* for U+00A0, a whitespace character that read_csv_data does not strip).  *)
(* A record (a Python dict of a CSV row) is a function from column names   *)
(* to texts.  A document body is a sequence of paragraphs and tables; a    *)
(* table is a sequence of rows, a row a sequence of cells, a cell a        *)
(* sequence of paragraphs, a paragraph a sequence of runs.                 *)
(***************************************************************************)
EXTENDS Integers, Sequences, FiniteSets, TLC

VARIABLES
    pc,                    \* position of the running entry point
    csv_rows,              \* the input CSV as csv.DictReader yields it
    data,                  \* csv_to_word: records loaded
    grouped_data,          \* csv_to_word: ordered mapping group -> records
    doc,                   \* the Word document body
    preserve_formatting,   \* the caller's flag
    original_csv_data,     \* word_to_csv: records loaded
    word_updates,          \* word_to_csv: id -> text
    updated_csv_data,      \* word_to_csv: reconciled records
    out_csv,               \* the destination CSV file
    error,                 \* the exception the entry point raised
    cell,                  \* _extract_formatted_text_from_cell: its argument
    para_idx,              \* ... index of the paragraph last processed
    para_text,             \* ... text of the paragraph last processed
    formatted_text,        \* ... accumulated text
    elem_idx,              \* schema inference: body element being scanned
    row_idx,               \* schema inference: rows of that table scanned
    csv_data,              \* schema inference: records emitted
    current_frame_group    \* schema inference: current section

vars == <<pc, csv_rows, data, grouped_data, doc, preserve_formatting,
          original_csv_data, word_updates, updated_csv_data, out_csv, error,
          cell, para_idx, para_text, formatted_text,
          elem_idx, row_idx, csv_data, current_frame_group>>

forwardVars == <<data, grouped_data>>
reverseVars == <<original_csv_data, word_updates, updated_csv_data>>
fileVars    == <<out_csv, error>>
extractVars == <<cell, para_idx, para_text, formatted_text>>
inferVars   == <<elem_idx, row_idx, csv_data, current_frame_group>>

----------------------------------------------------------------------------
(* Bounds of the model.                                                    *)

MaxRecs == 2
\* records of a CSV given to csv_to_word
MaxGroupRecs == 3
\* Text cells a user edits in a built document
MaxEdits == 1
\* runs in a cell, and paragraphs in a cell
MaxRuns == 2
MaxParas == 2

----------------------------------------------------------------------------
(* Python str and dict primitives.                                         *)

\* Characters str.strip() removes: str.isspace() characters.
Whitespace == {" ", "\t", "\n", "nbsp"}

RECURSIVE LStripChars(_, _)
LStripChars(s, cs) ==
    IF s # <<>> /\ Head(s) \in cs THEN LStripChars(Tail(s), cs) ELSE s

RECURSIVE RStripChars(_, _)
RStripChars(s, cs) ==
    IF s # <<>> /\ s[Len(s)] \in cs
    THEN RStripChars(SubSeq(s, 1, Len(s) - 1), cs) ELSE s

\* s.strip(cs)
StripChars(s, cs) == RStripChars(LStripChars(s, cs), cs)

\* s.strip()
Strip(s) == StripChars(s, Whitespace)

\* s.startswith(p)
StartsWith(s, p) == Len(p) <= Len(s) /\ SubSeq(s, 1, Len(p)) = p

\* s[n:]
Drop(s, n) == SubSeq(s, n + 1, Len(s))

\* d.get(key, default)
Get(d, key, default) == IF key \in DOMAIN d THEN d[key] ELSE default

\* d[key] = value
SetKey(d, key, value) ==
    [c \in DOMAIN d \cup {key} |-> IF c = key THEN value ELSE d[c]]

SeqsUpTo(S, n) == UNION {[1..k -> S] : k \in 0..n}

PartialMaps(K, V) == UNION {[D -> V] : D \in SUBSET K}

----------------------------------------------------------------------------
(* Rich-text extractor: _extract_formatted_text_from_cell.  A run is       *)
(* [text, bold, italic], a paragraph [style, runs], a cell a sequence of   *)
(* paragraphs.  "bullet" stands for U+2022.  The hyperlink lookup of the   *)
(* source computes a value that is never used and is left out.             *)

Run(t, b, i) == [text |-> t, bold |-> b, italic |-> i]

Bullets      == {"bullet", "-", "*"}
Digits       == {"0", "1", "2", "3", "4", "5", "6", "7", "8", "9"}
Letters      == {"a", "b", "c", "d", "e", "f", "g", "h", "i", "j", "k", "l",
                 "m", "n", "o", "p", "q", "r", "s", "t", "u", "v", "w", "x",
                 "y", "z", "A", "B", "C", "D", "E", "F", "G", "H", "I", "J",
                 "K", "L", "M", "N", "O", "P", "Q", "R", "S", "T", "U", "V",
                 "W", "X", "Y", "Z"}
\* [ivxlcdm] and [IVXLCDM], each under re.IGNORECASE
RomanLetters == {"i", "v", "x", "l", "c", "d", "m",
                 "I", "V", "X", "L", "C", "D", "M"}

RECURSIVE JoinRuns(_)
\* para.text: the texts of the runs, concatenated
JoinRuns(runs) ==
    IF runs = <<>> THEN <<>> ELSE Head(runs).text \o JoinRuns(Tail(runs))

ParaPlainText(para) == JoinRuns(para.runs)

RECURSIVE CellText(_)
\* cell.text: the paragraphs' texts joined by newlines
CellText(c) ==
    IF c = <<>> THEN <<>>
    ELSE IF Len(c) = 1 THEN ParaPlainText(c[1])
    ELSE ParaPlainText(c[1]) \o <<"\n">> \o CellText(Tail(c))

RECURSIVE LeadLen(_, _)
\* length of the longest prefix of s made of characters of cs
LeadLen(s, cs) ==
    IF s # <<>> /\ Head(s) \in cs THEN 1 + LeadLen(Tail(s), cs) ELSE 0

\* characters 1..n are the marker body: [.)] and \s follow
MarkerAt(text, n) ==
    /\ n >= 1
    /\ Len(text) >= n + 2
    /\ text[n + 1] \in {".", ")"}
    /\ text[n + 2] \in Whitespace

\* group(1) of re.match(numbered_pattern, text, re.IGNORECASE); <<>> when
\* the pattern does not match
NumberedMarker(text) ==
    LET d == LeadLen(text, Digits)
        r == LeadLen(text, RomanLetters)
    IN  IF MarkerAt(text, d) THEN SubSeq(text, 1, d + 1)
        ELSE IF text # <<>> /\ Head(text) \in Letters /\ MarkerAt(text, 1)
             THEN SubSeq(text, 1, 2)
        ELSE IF MarkerAt(text, r) THEN SubSeq(text, 1, r + 1)
        ELSE <<>>

NotAList == [is_list_item |-> FALSE, is_numbered_list |-> FALSE,
             list_marker |-> <<>>]

\* is_list_item, is_numbered_list, list_marker of a paragraph
ClassifyParagraph(para) ==
    LET text == Strip(ParaPlainText(para))
    IN  IF text = <<>> THEN NotAList
        ELSE IF Head(text) \in Bullets
             THEN [is_list_item |-> TRUE, is_numbered_list |-> FALSE,
                   list_marker |-> <<Head(text)>>]
        ELSE IF Len(text) > 2 /\ NumberedMarker(text) # <<>>
             THEN [is_list_item |-> TRUE, is_numbered_list |-> TRUE,
                   list_marker |-> NumberedMarker(text)]
        ELSE NotAList

\* The emphasis test with the bold-only branch first.
FormatRunBoldFirst(run) ==
    IF run.bold THEN <<"*", "*">> \o run.text \o <<"*", "*">>
    ELSE IF run.italic THEN <<"*">> \o run.text \o <<"*">>
    ELSE run.text

\* "Apply Markdown formatting" to a run's text
FormatRun(run) ==
    IF run.bold /\ run.italic
    THEN <<"*", "*", "*">> \o run.text \o <<"*", "*", "*">>
    ELSE IF run.bold THEN <<"*", "*">> \o run.text \o <<"*", "*">>
    ELSE IF run.italic THEN <<"*">> \o run.text \o <<"*">>
    ELSE run.text

RECURSIVE AssembleRuns(_, _)
\* the loop over para.runs: para_text after the runs, from para_text = acc
AssembleRuns(runs, acc) ==
    IF runs = <<>> THEN acc
    ELSE LET run_text == FormatRun(Head(runs))
             sep == IF /\ acc # <<>>
                       /\ acc[Len(acc)] \in {"*", ")"}
                       /\ Head(run_text) \in {"*", "["}
                    THEN <<" ">> ELSE <<>>
         IN  IF Head(runs).text = <<>>
             THEN AssembleRuns(Tail(runs), acc)
             ELSE AssembleRuns(Tail(runs), acc \o sep \o run_text)

\* "Add list formatting if this is a list item"
ListFormat(text, cls) ==
    LET clean_text == Strip(text)
    IN  IF ~cls.is_list_item THEN text
        ELSE IF cls.is_numbered_list
             THEN cls.list_marker \o <<" ">> \o
                  (IF StartsWith(clean_text, cls.list_marker)
                   THEN Strip(Drop(clean_text, Len(cls.list_marker)))
                   ELSE clean_text)
        ELSE <<"-", " ">> \o
             (IF clean_text # <<>> /\ Head(clean_text) \in Bullets
              THEN Strip(Drop(clean_text, 1))
              ELSE clean_text)

\* para_text at the end of one iteration of the loop over cell.paragraphs
ParagraphText(para) ==
    LET assembled == AssembleRuns(para.runs, <<>>)
    IN  IF Strip(assembled) = <<>> THEN assembled
        ELSE ListFormat(assembled, ClassifyParagraph(para))

\* The join with one space before every later paragraph.
AppendParagraphSpace(acc, para) ==
    LET text == ParagraphText(para)
    IN  IF Strip(text) = <<>> THEN acc
        ELSE IF acc = <<>> THEN text
        ELSE acc \o <<" ">> \o text

\* formatted_text at the end of one iteration, from formatted_text = acc
AppendParagraph(acc, para) ==
    LET text == ParagraphText(para)
        as_list == \/ StartsWith(text, <<"-", " ">>)
                   \/ ClassifyParagraph(para).is_numbered_list
    IN  IF Strip(text) = <<>> THEN acc
        ELSE IF acc = <<>> THEN text
        ELSE IF as_list THEN acc \o <<"\n">> \o text
        ELSE acc \o <<" ">> \o text

RECURSIVE AppendParagraphs(_, _)
AppendParagraphs(acc, paras) ==
    IF paras = <<>> THEN acc
    ELSE AppendParagraphs(AppendParagraph(acc, Head(paras)), Tail(paras))

\* _extract_formatted_text_from_cell(cell) under the flag
extract_formatted_text_from_cell(c, preserve) ==
    IF ~preserve THEN Strip(CellText(c))
    ELSE Strip(AppendParagraphs(<<>>, c))

----------------------------------------------------------------------------
(* Tabular store, read side: read_csv_data.  csv_rows is what              *)
(* csv.DictReader yields: one dict per data line, keyed by the header's    *)
(* column names.  Column names are strings, so the padding the source      *)
(* strips from them is not represented; values are texts and are stripped. *)

CsvPadding == {" ", "\t", "\""}

\* cleaned_row of one row: value.strip(' \t"')
CleanRow(row) == [k \in DOMAIN row |-> StripChars(row[k], CsvPadding)]

read_csv_data(rows) == [i \in 1..Len(rows) |-> CleanRow(rows[i])]

----------------------------------------------------------------------------
(* Grouping: group_data_by_section.  The ordered mapping (a dict, ordered  *)
(* by first insertion) is a sequence of [name, rows] entries.              *)

UnknownGroup == <<"U", "n", "k", "n", "o", "w", "n", " ",
                  "G", "r", "o", "u", "p">>

HasGroup(grouped, g) == \E i \in 1..Len(grouped) : grouped[i].name = g

\* An insertion that puts the row first in its group.
AddToGroupFront(grouped, g, row) ==
    IF HasGroup(grouped, g)
    THEN [i \in 1..Len(grouped) |->
             IF grouped[i].name = g
             THEN [grouped[i] EXCEPT !.rows = <<row>> \o @]
             ELSE grouped[i]]
    ELSE Append(grouped, [name |-> g, rows |-> <<row>>])

\* grouped_data[group].append(row) on a defaultdict(list)
AddToGroup(grouped, g, row) ==
    IF HasGroup(grouped, g)
    THEN [i \in 1..Len(grouped) |->
             IF grouped[i].name = g
             THEN [grouped[i] EXCEPT !.rows = Append(@, row)]
             ELSE grouped[i]]
    ELSE Append(grouped, [name |-> g, rows |-> <<row>>])

RECURSIVE GroupRowsUntrimmed(_, _)
\* The loop over data with the test "if group", without group.strip().
GroupRowsUntrimmed(rows, grouped) ==
    IF rows = <<>> THEN grouped
    ELSE LET row == Head(rows)
             group == Get(row, "group", UnknownGroup)
         IN  GroupRowsUntrimmed(Tail(rows),
                                IF group # <<>>
                                THEN AddToGroup(grouped, group, row)
                                ELSE grouped)

RECURSIVE GroupRows(_, _)
\* the loop over data, from grouped_data = grouped
GroupRows(rows, grouped) ==
    IF rows = <<>> THEN grouped
    ELSE LET row == Head(rows)
             group == Get(row, "group", UnknownGroup)
         IN  GroupRows(Tail(rows),
                       IF group # <<>> /\ Strip(group) # <<>>
                       THEN AddToGroup(grouped, group, row)
                       ELSE grouped)

group_data_by_section(rows) == GroupRows(rows, <<>>)

----------------------------------------------------------------------------
(* Document builder: create_word_document.  A body element is a paragraph  *)
(* [kind |-> "p", style, runs] or a table [kind |-> "tbl", rows]; colours, *)
(* widths, shading, alignment and font sizes are not represented.  Setting *)
(* cell.text leaves one paragraph with one run holding the text, and       *)
(* reading it back returns the same characters.                            *)

StyleTitle    == <<"T", "i", "t", "l", "e">>
StyleHeading1 == <<"H", "e", "a", "d", "i", "n", "g", " ", "1">>
StyleNormal   == <<"N", "o", "r", "m", "a", "l">>

Paragraph(style, runs) == [kind |-> "p", style |-> style, runs |-> runs]

\* cell.text = t
TextCell(t) == <<[style |-> StyleNormal, runs |-> <<Run(t, FALSE, FALSE)>>]>>

\* cell.text = t, then run.bold = True on its runs
HeaderCell(t) == <<[style |-> StyleNormal, runs |-> <<Run(t, TRUE, FALSE)>>]>>

TitleText == <<"F", "i", "g", "m", "a", " ", "C", "o", "p", "y", " ",
               "E", "x", "p", "o", "r", "t">>

HeaderRow == <<HeaderCell(<<"L", "a", "b", "e", "l">>),
               HeaderCell(<<"T", "e", "x", "t">>),
               HeaderCell(<<"I", "D">>)>>

\* A data row with the text in the first cell and the label in the second.
DataRowTextFirst(row_data) ==
    <<TextCell(Get(row_data, "figma_text", <<>>)),
      TextCell(Get(row_data, "layer_name", <<>>)),
      TextCell(Get(row_data, "id", <<>>))>>

\* the cells of one data row
DataRow(row_data) ==
    <<TextCell(Get(row_data, "layer_name", <<>>)),
      TextCell(Get(row_data, "figma_text", <<>>)),
      TextCell(Get(row_data, "id", <<>>))>>

GroupTable(rows) ==
    [kind |-> "tbl",
     rows |-> <<HeaderRow>> \o [i \in 1..Len(rows) |-> DataRow(rows[i])]]

\* One iteration of the loop over groups without the empty-group test.
GroupBlockNoSkip(entry) ==
    <<Paragraph(StyleHeading1, <<Run(entry.name, FALSE, FALSE)>>),
      GroupTable(entry.rows),
      Paragraph(StyleNormal, <<>>)>>

\* one iteration of the loop over grouped_data.items(): heading, table and
\* spacer, or nothing for a group without rows
GroupBlock(entry) ==
    IF entry.rows = <<>> THEN <<>>
    ELSE <<Paragraph(StyleHeading1, <<Run(entry.name, FALSE, FALSE)>>),
           GroupTable(entry.rows),
           Paragraph(StyleNormal, <<>>)>>

RECURSIVE GroupBlocks(_)
GroupBlocks(grouped) ==
    IF grouped = <<>> THEN <<>>
    ELSE GroupBlock(Head(grouped)) \o GroupBlocks(Tail(grouped))

\* the body of the document that create_word_document saves
create_word_document(grouped) ==
    <<Paragraph(StyleTitle, <<Run(TitleText, FALSE, FALSE)>>)>>
        \o GroupBlocks(grouped)

----------------------------------------------------------------------------
(* Reverse path, read side: read_word_document_data.                       *)

\* doc.tables: the tables of the body, in document order
Tables(d) == SelectSeq(d, LAMBDA e : e.kind = "tbl")

\* One data row read with the id taken from the row's first cell.
ReadRowIdFirst(id_to_text, cells, preserve) ==
    IF Len(cells) >= 3
    THEN LET text == extract_formatted_text_from_cell(cells[2], preserve)
             id_value == Strip(CellText(cells[1]))
         IN  IF id_value # <<>> THEN SetKey(id_to_text, id_value, text)
             ELSE id_to_text
    ELSE id_to_text

\* the body of the loop over table.rows[1:]
ReadRow(id_to_text, cells, preserve) ==
    IF Len(cells) >= 3
    THEN LET text == extract_formatted_text_from_cell(cells[2], preserve)
             id_value == Strip(CellText(cells[3]))
         IN  IF id_value # <<>> THEN SetKey(id_to_text, id_value, text)
             ELSE id_to_text
    ELSE id_to_text

RECURSIVE ReadRows(_, _, _)
ReadRows(id_to_text, rows, preserve) ==
    IF rows = <<>> THEN id_to_text
    ELSE ReadRows(ReadRow(id_to_text, Head(rows), preserve), Tail(rows),
                  preserve)

RECURSIVE ReadTablesAllRows(_, _, _)
\* The loop over doc.tables reading every row, row 0 included.
ReadTablesAllRows(id_to_text, tables, preserve) ==
    IF tables = <<>> THEN id_to_text
    ELSE ReadTablesAllRows(ReadRows(id_to_text, Head(tables).rows, preserve),
                           Tail(tables), preserve)

RECURSIVE ReadTables(_, _, _)
\* the loop over doc.tables; table.rows[1:] skips row 0 of each table
ReadTables(id_to_text, tables, preserve) ==
    IF tables = <<>> THEN id_to_text
    ELSE ReadTables(ReadRows(id_to_text, Tail(Head(tables).rows), preserve),
                    Tail(tables), preserve)

read_word_document_data(d, preserve) == ReadTables(<<>>, Tables(d), preserve)

----------------------------------------------------------------------------
(* Tabular store, write side: write_csv_data.  The result is the exception *)
(* raised, if any, and the destination file: whether it exists, its header *)
(* and the rows written.  csv.DictWriter raises ValueError on a row with a key *)
(* that is not a field name, after the header and the rows before it have  *)
(* been written.                                                           *)

NoFile == [exists |-> FALSE, fieldnames |-> {}, rows |-> <<>>]

WrittenRow(fieldnames, row) == [k \in fieldnames |-> Get(row, k, <<>>)]

\* A writer that writes the header of an empty record list.
WriteCsvNoCheck(records) ==
    [error |-> "none",
     file |-> [exists |-> TRUE, fieldnames |-> {}, rows |-> <<>>]]

write_csv_data(records) ==
    IF records = <<>> THEN [error |-> "ValueError", file |-> NoFile]
    ELSE LET fieldnames == DOMAIN records[1]
             bad == {i \in 1..Len(records) :
                        ~(DOMAIN records[i] \subseteq fieldnames)}
             stop == IF bad = {} THEN Len(records) + 1
                     ELSE CHOOSE i \in bad : \A j \in bad : i <= j
         IN  [error |-> IF bad = {} THEN "none" ELSE "ValueError",
              file |-> [exists |-> TRUE,
                        fieldnames |-> fieldnames,
                        rows |-> [i \in 1..(stop - 1) |->
                                     WrittenRow(fieldnames, records[i])]]]

----------------------------------------------------------------------------
(* Schema inference: extract_word_document_to_csv_format.                  *)

\* the nested copy of _extract_formatted_text_from_cell: the same code
infer_formatted_text_from_cell(c, preserve) ==
    extract_formatted_text_from_cell(c, preserve)

UpperCase == <<"A", "B", "C", "D", "E", "F", "G", "H", "I", "J", "K", "L", "M",
               "N", "O", "P", "Q", "R", "S", "T", "U", "V", "W", "X", "Y", "Z">>
LowerCase == <<"a", "b", "c", "d", "e", "f", "g", "h", "i", "j", "k", "l", "m",
               "n", "o", "p", "q", "r", "s", "t", "u", "v", "w", "x", "y", "z">>

LowerChar(c) ==
    IF \E i \in 1..Len(UpperCase) : UpperCase[i] = c
    THEN LowerCase[CHOOSE i \in 1..Len(UpperCase) : UpperCase[i] = c]
    ELSE c

\* s.lower()
LowerText(s) == [i \in 1..Len(s) |-> LowerChar(s[i])]

\* sub in s
Contains(s, sub) ==
    \E i \in 0..(Len(s) - Len(sub)) : SubSeq(s, i + 1, i + Len(sub)) = sub

DigitChars == <<"0", "1", "2", "3", "4", "5", "6", "7", "8", "9">>

RECURSIVE DecimalText(_)
\* str(n) of a natural number
DecimalText(n) ==
    IF n < Len(DigitChars) THEN <<DigitChars[n + 1]>>
    ELSE DecimalText(n \div Len(DigitChars))
             \o <<DigitChars[(n % Len(DigitChars)) + 1]>>

\* An id numbered by the records emitted so far, without the + 1.
GeneratedIdFromZero(count) ==
    <<"g", "e", "n", "e", "r", "a", "t", "e", "d", "_">> \o DecimalText(count)

\* An id numbered without looking at the records emitted so far.
GeneratedIdFirst(count) ==
    <<"g", "e", "n", "e", "r", "a", "t", "e", "d", "_">> \o DecimalText(1)

\* f"generated_{len(csv_data) + 1}", count being len(csv_data)
GeneratedId(count) ==
    <<"g", "e", "n", "e", "r", "a", "t", "e", "d", "_">>
        \o DecimalText(count + 1)

GeneralContent == <<"G", "e", "n", "e", "r", "a", "l", " ",
                    "C", "o", "n", "t", "e", "n", "t">>
ContentLabel == <<"C", "o", "n", "t", "e", "n", "t">>

HeaderLabels == {<<"l", "a", "b", "e", "l">>,
                 <<"c", "o", "m", "p", "o", "n", "e", "n", "t">>}
HeaderTexts  == {<<"t", "e", "x", "t">>,
                 <<"d", "e", "s", "c", "r", "i", "p", "t", "i", "o", "n">>}
HeaderIds    == {<<"i", "d">>}

\* A header test that looks at the first cell only.
IsHeaderRowLabelOnly(cells) ==
    LowerText(Strip(CellText(cells[1]))) \in HeaderLabels

\* is_header_row of a row with at least two cells
IsHeaderRow(cells) ==
    LET cell_texts == [i \in 1..Len(cells) |->
                          LowerText(Strip(CellText(cells[i])))]
    IN  \/ /\ Len(cells) = 3
           /\ cell_texts[1] \in HeaderLabels
           /\ cell_texts[2] \in HeaderTexts
           /\ cell_texts[3] \in HeaderIds
        \/ /\ Len(cells) = 2
           /\ cell_texts[1] \in HeaderLabels
           /\ cell_texts[2] \in HeaderTexts

IdMarkers == {<<":">>, <<";">>, <<"I", "2", "0", "1", "6">>, <<"I", "-">>,
              <<"_">>, <<"-">>}
IdMinLength == 10

\* The id test with the length compared by >= instead of >.
LooksLikeIdFromTen(t) ==
    /\ Len(t) > 0
    /\ \E m \in IdMarkers : Contains(t, m)
    /\ Len(t) >= IdMinLength

\* the test applied to column 3 and to column 1 of a 3-column row
LooksLikeId(t) ==
    /\ Len(t) > 0
    /\ \E m \in IdMarkers : Contains(t, m)
    /\ Len(t) > IdMinLength

\* The fields of a row with the id test applied to a 2-column row too.
InferFieldsIdInTwo(cells, count, preserve) ==
    LET col1_text == infer_formatted_text_from_cell(cells[1], preserve)
    IN  IF Len(cells) = 2
        THEN [layer_name |-> col1_text,
              figma_text |-> infer_formatted_text_from_cell(cells[2], preserve),
              id_value |-> IF LooksLikeId(col1_text) THEN col1_text
                           ELSE GeneratedId(count)]
        ELSE [layer_name |-> ContentLabel,
              figma_text |-> col1_text,
              id_value |-> GeneratedId(count)]

\* layer_name, figma_text and id_value of a row that is not a header,
\* count being len(csv_data)
InferFields(cells, count, preserve) ==
    IF Len(cells) = 3
    THEN LET col1_text == infer_formatted_text_from_cell(cells[1], preserve)
             col2_text == infer_formatted_text_from_cell(cells[2], preserve)
             col3_text == infer_formatted_text_from_cell(cells[3], preserve)
         IN  IF LooksLikeId(col3_text)
             THEN [layer_name |-> col1_text, figma_text |-> col2_text,
                   id_value |-> col3_text]
             ELSE IF LooksLikeId(col1_text)
             THEN [layer_name |-> col2_text, figma_text |-> col3_text,
                   id_value |-> col1_text]
             ELSE [layer_name |-> col1_text, figma_text |-> col2_text,
                   id_value |-> IF Strip(col3_text) # <<>> THEN col3_text
                                ELSE GeneratedId(count)]
    ELSE IF Len(cells) = 2
    THEN [layer_name |-> infer_formatted_text_from_cell(cells[1], preserve),
          figma_text |-> infer_formatted_text_from_cell(cells[2], preserve),
          id_value |-> GeneratedId(count)]
    ELSE [layer_name |-> ContentLabel,
          figma_text |-> infer_formatted_text_from_cell(cells[1], preserve),
          id_value |-> GeneratedId(count)]

\* One iteration of the loop over table.rows with the content test made on
\* the label instead of the text.
InferRowByLabel(records, section, cells, preserve) ==
    IF Len(cells) < 2 \/ IsHeaderRow(cells) THEN records
    ELSE LET f == InferFields(cells, Len(records), preserve)
         IN  IF Strip(f.layer_name) # <<>>
             THEN Append(records,
                         [id |-> f.id_value,
                          frame |-> section,
                          group |-> section,
                          layer_name |-> f.layer_name,
                          figma_text |-> f.figma_text])
             ELSE records

\* csv_data after one iteration of the loop over table.rows
InferRow(records, section, cells, preserve) ==
    IF Len(cells) < 2 \/ IsHeaderRow(cells) THEN records
    ELSE LET f == InferFields(cells, Len(records), preserve)
         IN  IF Strip(f.figma_text) # <<>>
             THEN Append(records,
                         [id |-> f.id_value,
                          frame |-> section,
                          group |-> section,
                          layer_name |-> IF Strip(f.layer_name) # <<>>
                                         THEN f.layer_name ELSE ContentLabel,
                          figma_text |-> f.figma_text])
             ELSE records

\* 'heading' in style_name or 'title' in style_name, style_name lower-cased
IsHeadingStyle(style) ==
    \/ Contains(LowerText(style), <<"h", "e", "a", "d", "i", "n", "g">>)
    \/ Contains(LowerText(style), <<"t", "i", "t", "l", "e">>)

\* A heading test that takes the text of a blank heading as well.
InferSectionBlank(section, para) ==
    IF IsHeadingStyle(para.style) THEN Strip(ParaPlainText(para)) ELSE section

\* current_frame_group after a body paragraph
InferSection(section, para) ==
    IF IsHeadingStyle(para.style) /\ Strip(ParaPlainText(para)) # <<>>
    THEN Strip(ParaPlainText(para))
    ELSE section

RECURSIVE InferRows(_, _, _, _)
InferRows(records, section, rows, preserve) ==
    IF rows = <<>> THEN records
    ELSE InferRows(InferRow(records, section, Head(rows), preserve), section,
                   Tail(rows), preserve)

RECURSIVE InferBody(_, _, _, _)
\* the loop over doc.element.body
InferBody(records, section, elements, preserve) ==
    IF elements = <<>> THEN records
    ELSE IF Head(elements).kind = "p"
    THEN InferBody(records, InferSection(section, Head(elements)),
                   Tail(elements), preserve)
    ELSE InferBody(InferRows(records, section, Head(elements).rows, preserve),
                   section, Tail(elements), preserve)

extract_word_document_to_csv_format(d, preserve) ==
    InferBody(<<>>, GeneralContent, d, preserve)

----------------------------------------------------------------------------
(* Reconciler: update_csv_with_word_changes.                               *)

\* The loop body with word_updates.get(row_id, '') in place of the test.
UpdateRowAlways(row, updates) ==
    LET row_id == Strip(Get(row, "id", <<>>))
    IN  SetKey(row, "figma_text", Get(updates, row_id, <<>>))

\* The loop body: copy the row, overwrite figma_text when the trimmed id
\* has an update.
UpdateRow(row, updates) ==
    LET row_id == Strip(Get(row, "id", <<>>))
    IN  IF row_id \in DOMAIN updates
        THEN SetKey(row, "figma_text", updates[row_id])
        ELSE row

RECURSIVE UpdateMatchedOnly(_, _)
\* A loop that appends only the rows it updated.
UpdateMatchedOnly(rows, updates) ==
    IF rows = <<>> THEN <<>>
    ELSE LET rest == UpdateMatchedOnly(Tail(rows), updates)
         IN  IF Strip(Get(Head(rows), "id", <<>>)) \in DOMAIN updates
             THEN <<UpdateRow(Head(rows), updates)>> \o rest
             ELSE rest

update_csv_with_word_changes(rows, updates) ==
    [i \in 1..Len(rows) |-> UpdateRow(rows[i], updates)]

----------------------------------------------------------------------------
(* Reconciler on its own: every record sequence, every update map.         *)

ReconIds   == {<<"a">>, <<" ", "a">>, <<"b">>}
ReconTexts == {<<"x">>, <<"y">>}

ReconRecords ==
    {[id |-> i, group |-> <<"G">>, layer_name |-> <<"L">>, figma_text |-> t,
      notes |-> <<"n">>] : i \in ReconIds, t \in ReconTexts}
    \cup {[id |-> i, group |-> <<"G">>, layer_name |-> <<"L">>] : i \in ReconIds}
    \cup {[group |-> <<"H">>, layer_name |-> <<"L">>, figma_text |-> t] :
            t \in ReconTexts}

ReconUpdates == PartialMaps({<<>>, <<"a">>, <<"b">>}, {<<"x">>, <<"z">>})

\* Parts of the state an entry point does not use.
InputIdle   == csv_rows = <<>> /\ doc = <<>> /\ preserve_formatting = TRUE
ForwardIdle == data = <<>> /\ grouped_data = <<>>
ReverseIdle ==
    original_csv_data = <<>> /\ word_updates = <<>> /\ updated_csv_data = <<>>
FileIdle    == out_csv = NoFile /\ error = "none"
ExtractIdle ==
    cell = <<>> /\ para_idx = 0 /\ para_text = <<>> /\ formatted_text = <<>>
InferIdle ==
    elem_idx = 0 /\ row_idx = 0 /\ csv_data = <<>> /\ current_frame_group = <<>>

InitReconcile ==
    /\ pc = "update"
    /\ original_csv_data \in SeqsUpTo(ReconRecords, MaxRecs)
    /\ word_updates \in ReconUpdates
    /\ updated_csv_data = <<>>
    /\ InputIdle /\ ForwardIdle /\ FileIdle /\ ExtractIdle /\ InferIdle

Reconcile ==
    /\ pc = "update"
    /\ updated_csv_data' =
           update_csv_with_word_changes(original_csv_data, word_updates)
    /\ pc' = "done"
    /\ UNCHANGED <<csv_rows, forwardVars, doc, preserve_formatting,
                   original_csv_data, word_updates, fileVars, extractVars,
                   inferVars>>

NextReconcile == Reconcile

SpecReconcile == InitReconcile /\ [][NextReconcile]_vars

\* C1: reconcile leaves every column other than figma_text (id, group,
\* layer_name, pass-through columns) of every record as it was, adds or
\* removes no such column, and leaves the whole record, figma_text included,
\* as it was when the record's trimmed id is not a key of the update map.
C1_ReconcileFrame ==
    pc = "done" =>
        /\ Len(updated_csv_data) = Len(original_csv_data)
        /\ \A i \in 1..Len(original_csv_data) :
               LET o == original_csv_data[i]
                   u == updated_csv_data[i]
               IN  /\ DOMAIN u \ {"figma_text"} = DOMAIN o \ {"figma_text"}
                   /\ \A c \in DOMAIN o \ {"figma_text"} : u[c] = o[c]
                   /\ Strip(Get(o, "id", <<>>)) \notin DOMAIN word_updates
                          => u = o

\* A run in which one record was rewritten and another, with a pass-through
\* column, had no update.
C1_Witness ==
    /\ pc = "done"
    /\ \E i, j \in 1..Len(original_csv_data) :
           /\ updated_csv_data[i] # original_csv_data[i]
           /\ "notes" \in DOMAIN original_csv_data[j]
           /\ Strip(Get(original_csv_data[j], "id", <<>>))
                  \notin DOMAIN word_updates

\* C2: reconcile returns for every input (it is enabled in every initial
\* state), and its result has the length of the original, the i-th record
\* being the i-th original record with figma_text set to updates[trim(id)]
\* when trim(id) is a key of updates and with figma_text as it was otherwise.
C2_ReconcilePositionwise ==
    /\ pc = "update" => ENABLED Reconcile
    /\ pc = "done" =>
        /\ Len(updated_csv_data) = Len(original_csv_data)
        /\ \A i \in 1..Len(original_csv_data) :
               LET o == original_csv_data[i]
                   u == updated_csv_data[i]
                   k == Strip(Get(o, "id", <<>>))
               IN  /\ Get(u, "id", <<"none">>) = Get(o, "id", <<"none">>)
                   /\ Get(u, "group", <<"none">>) = Get(o, "group", <<"none">>)
                   /\ IF k \in DOMAIN word_updates
                      THEN /\ "figma_text" \in DOMAIN u
                           /\ u["figma_text"] = word_updates[k]
                      ELSE Get(u, "figma_text", <<"none">>)
                               = Get(o, "figma_text", <<"none">>)

\* Two records, the first without an update and the second with one that
\* changes its text.
C2_Witness ==
    /\ pc = "done"
    /\ Len(original_csv_data) = 2
    /\ Strip(Get(original_csv_data[1], "id", <<>>)) \notin DOMAIN word_updates
    /\ Strip(Get(original_csv_data[2], "id", <<>>)) \in DOMAIN word_updates
    /\ updated_csv_data[2] # original_csv_data[2]

----------------------------------------------------------------------------
(* The extractor on its own, one paragraph of the cell per step.           *)

ExtractRuns ==
    {Run(<<"a">>, b, i) : b, i \in BOOLEAN}
    \cup {Run(<<>>, TRUE, FALSE),
          Run(<<"1", ".", "\t", "a">>, FALSE, FALSE),
          Run(<<"1", ".", "\t", "a">>, TRUE, FALSE),
          Run(<<"1", ".">>, FALSE, FALSE),
          Run(<<" ", "a">>, FALSE, FALSE),
          Run(<<"-", "a">>, FALSE, FALSE),
          Run(<<"-", "a">>, TRUE, FALSE),
          Run(<<"*", " ", "a">>, FALSE, FALSE)}

ParasOfLen(n) == {[style |-> StyleNormal, runs |-> rs] : rs \in [1..n -> ExtractRuns]}

RECURSIVE CellsOf(_, _)
\* cells of np paragraphs holding at most nr runs together
CellsOf(np, nr) ==
    IF np = 0 THEN {<<>>}
    ELSE UNION {{<<p>> \o c : p \in ParasOfLen(k), c \in CellsOf(np - 1, nr - k)} :
                k \in 0..nr}

ExtractCells == UNION {CellsOf(np, MaxRuns) : np \in 0..MaxParas}

InitExtract ==
    /\ pc = "extract"
    /\ cell \in ExtractCells
    /\ preserve_formatting \in BOOLEAN
    /\ para_idx = 0
    /\ para_text = <<>>
    /\ formatted_text = <<>>
    /\ csv_rows = <<>> /\ doc = <<>>
    /\ ForwardIdle /\ ReverseIdle /\ FileIdle /\ InferIdle

\* if not preserve_formatting: return cell.text.strip()
ExtractPlain ==
    /\ pc = "extract"
    /\ ~preserve_formatting
    /\ formatted_text' = Strip(CellText(cell))
    /\ pc' = "returned"
    /\ UNCHANGED <<csv_rows, forwardVars, doc, preserve_formatting,
                   reverseVars, fileVars, cell, para_idx, para_text,
                   inferVars>>

\* one iteration of "for para in cell.paragraphs"
ExtractParagraph ==
    /\ pc = "extract"
    /\ preserve_formatting
    /\ para_idx < Len(cell)
    /\ para_idx' = para_idx + 1
    /\ para_text' = ParagraphText(cell[para_idx + 1])
    /\ formatted_text' = AppendParagraph(formatted_text, cell[para_idx + 1])
    /\ UNCHANGED <<pc, csv_rows, forwardVars, doc, preserve_formatting,
                   reverseVars, fileVars, cell, inferVars>>

\* return formatted_text.strip()
ExtractReturn ==
    /\ pc = "extract"
    /\ preserve_formatting
    /\ para_idx = Len(cell)
    /\ formatted_text' = Strip(formatted_text)
    /\ pc' = "returned"
    /\ UNCHANGED <<csv_rows, forwardVars, doc, preserve_formatting,
                   reverseVars, fileVars, cell, para_idx, para_text,
                   inferVars>>

NextExtract == ExtractPlain \/ ExtractParagraph \/ ExtractReturn

SpecExtract == InitExtract /\ [][NextExtract]_vars

\* The marker the claim assigns to a run's flags.
C7_Wrapped(run) ==
    CASE run.bold /\ run.italic ->
             <<"*", "*", "*">> \o run.text \o <<"*", "*", "*">>
      [] run.bold /\ ~run.italic -> <<"*", "*">> \o run.text \o <<"*", "*">>
      [] ~run.bold /\ run.italic -> <<"*">> \o run.text \o <<"*">>
      [] OTHER -> run.text

RECURSIVE C7_Rendered(_, _)
\* The wrapped texts of the non-empty runs in order, one space between two
\* of them when the first ends in * or ) and the second starts with * or [.
C7_Rendered(runs, acc) ==
    IF runs = <<>> THEN acc
    ELSE IF Head(runs).text = <<>> THEN C7_Rendered(Tail(runs), acc)
    ELSE LET w == C7_Wrapped(Head(runs))
             collide == /\ acc # <<>>
                        /\ acc[Len(acc)] \in {"*", ")"}
                        /\ Head(w) \in {"*", "["}
         IN  C7_Rendered(Tail(runs),
                         acc \o (IF collide THEN <<" ">> ELSE <<>>) \o w)

\* C7: with formatting enabled, the text of a paragraph that is not a list
\* item is made of its non-empty runs in order, each as its text wrapped by
\* the marker of its flags (*** for bold and italic, ** for bold only, * for
\* italic only, nothing for neither); runs with empty text add nothing.
C7_EmphasisMarkers ==
    (preserve_formatting /\ para_idx >= 1) =>
        LET para == cell[para_idx]
        IN  ~ClassifyParagraph(para).is_list_item
                => para_text = C7_Rendered(para.runs, <<>>)

\* A processed paragraph that is no list item and holds a bold-and-italic
\* run next to a run with empty text.
C7_Witness ==
    /\ preserve_formatting
    /\ para_idx >= 1
    /\ ~ClassifyParagraph(cell[para_idx]).is_list_item
    /\ \E i, j \in 1..Len(cell[para_idx].runs) :
           /\ cell[para_idx].runs[i].bold
           /\ cell[para_idx].runs[i].italic
           /\ cell[para_idx].runs[i].text # <<>>
           /\ cell[para_idx].runs[j].text = <<>>
    /\ para_text = <<"*", "*", "*", "a", "*", "*", "*">>

\* C8: the text of a paragraph classified as an ordered-list item with
\* marker m is m, one space, and the paragraph's rendered text with its
\* leading m and the whitespace after it removed: the rendered text starts
\* with m and the marker is written once.
C8_OrderedMarkerOnce ==
    (preserve_formatting /\ para_idx >= 1) =>
        LET para == cell[para_idx]
            cls == ClassifyParagraph(para)
            rendered == Strip(AssembleRuns(para.runs, <<>>))
        IN  cls.is_numbered_list =>
                /\ StartsWith(rendered, cls.list_marker)
                /\ para_text = cls.list_marker \o <<" ">>
                       \o Strip(Drop(rendered, Len(cls.list_marker)))

----------------------------------------------------------------------------
(* Forward path: csv_to_word, and create_word_document called on its own   *)
(* with any ordered mapping (groups without rows included).                *)

CsvRow(i, g, l, t) == [id |-> i, group |-> g, layer_name |-> l, figma_text |-> t]

\* rows of a CSV with the four columns, and of one without a group column
ForwardRows ==
    {CsvRow(i, g, <<"L">>, <<"x">>) :
        i \in {<<"a">>, <<"b">>},
        g \in {<<"G">>, <<"H">>, <<>>, <<" ", "G">>, <<"nbsp">>}}
ForwardRowsNoGroup ==
    {[id |-> i, layer_name |-> <<"L">>, figma_text |-> <<"x">>] :
        i \in {<<"a">>, <<"b">>}}

ForwardCsvs ==
    SeqsUpTo(ForwardRows, MaxGroupRecs)
        \cup SeqsUpTo(ForwardRowsNoGroup, MaxGroupRecs)

BuildRecords ==
    {CsvRow(<<"a">>, <<"G">>, <<"L">>, <<"x">>),
     [id |-> <<"b">>, group |-> <<"G">>, figma_text |-> <<"y">>]}

\* ordered mappings with distinct keys
BuildMappings ==
    LET entries(g) == {[name |-> g, rows |-> rs] :
                          rs \in SeqsUpTo(BuildRecords, MaxRecs)}
    IN  {<<>>}
        \cup {<<e>> : e \in entries(<<"G">>) \cup entries(<<"H">>)}
        \cup {<<e, f>> : e \in entries(<<"G">>), f \in entries(<<"H">>)}
        \cup {<<f, e>> : e \in entries(<<"G">>), f \in entries(<<"H">>)}

InitForward ==
    /\ \/ /\ pc = "forward"
          /\ csv_rows \in ForwardCsvs
          /\ grouped_data = <<>>
       \/ /\ pc = "build"
          /\ csv_rows = <<>>
          /\ grouped_data \in BuildMappings
    /\ data = <<>>
    /\ doc = <<>>
    /\ preserve_formatting = TRUE
    /\ ReverseIdle /\ FileIdle /\ ExtractIdle /\ InferIdle

\* csv_to_word(csv_file_path, word_file_path)
CsvToWord ==
    /\ pc = "forward"
    /\ data' = read_csv_data(csv_rows)
    /\ grouped_data' = group_data_by_section(data')
    /\ doc' = create_word_document(grouped_data')
    /\ pc' = "built"
    /\ UNCHANGED <<csv_rows, preserve_formatting, reverseVars, fileVars,
                   extractVars, inferVars>>

\* create_word_document(grouped_data, output_path)
CreateWordDocument ==
    /\ pc = "build"
    /\ doc' = create_word_document(grouped_data)
    /\ pc' = "saved"
    /\ UNCHANGED <<csv_rows, forwardVars, preserve_formatting, reverseVars,
                   fileVars, extractVars, inferVars>>

NextForward == CsvToWord \/ CreateWordDocument

SpecForward == InitForward /\ [][NextForward]_vars

\* The group a record is filed under.
C4_GroupOf(row) == Get(row, "group", UnknownGroup)

\* Index of the first record of data filed under group g.
C4_FirstIndex(g) ==
    CHOOSE i \in 1..Len(data) :
        /\ C4_GroupOf(data[i]) = g
        /\ \A j \in 1..(i - 1) : C4_GroupOf(data[j]) # g

\* C4: after grouping, the records listed under each group are the records
\* of the input with that group value, in their input order, and the groups
\* come in the order of their first record in the input.
C4_StableGrouping ==
    pc = "built" =>
        /\ \A k \in 1..Len(grouped_data) :
               grouped_data[k].rows =
                   SelectSeq(data,
                             LAMBDA r : C4_GroupOf(r) = grouped_data[k].name)
        /\ \A k, l \in 1..Len(grouped_data) :
               k < l => C4_FirstIndex(grouped_data[k].name)
                            < C4_FirstIndex(grouped_data[l].name)

\* Three records of groups H, G, H: the first group lists the first and the
\* third record, and H comes before G.
C4_Witness ==
    /\ pc = "built"
    /\ Len(data) = 3
    /\ Len(grouped_data) = 2
    /\ grouped_data[1].name = <<"H">>
    /\ grouped_data[2].name = <<"G">>
    /\ grouped_data[1].rows = <<data[1], data[3]>>
    /\ data[1] # data[3]

\* The headings of groups and the tables of a document, in document order.
C5_Sections(d) ==
    SelectSeq(d, LAMBDA e : e.kind = "tbl" \/ e.style = StyleHeading1)

\* The texts of the cells of a table row.
C5_RowTexts(row) == [c \in 1..Len(row) |-> CellText(row[c])]

\* C5: the built document holds, for each group with records and in the
\* mapping's order, one heading with the group name followed by one table
\* whose row 0 is (Label, Text, ID) and whose rows 1..n are (layer_name,
\* figma_text, id) of the group's records in order; groups without records
\* leave nothing.
C5_SectionPerGroup ==
    pc \in {"built", "saved"} =>
        LET groups == SelectSeq(grouped_data, LAMBDA e : e.rows # <<>>)
            sections == C5_Sections(doc)
        IN  /\ Len(sections) = 2 * Len(groups)
            /\ \A k \in 1..Len(groups) :
                   LET heading == sections[2 * k - 1]
                       table == sections[2 * k]
                       rows == groups[k].rows
                   IN  /\ heading.kind = "p"
                       /\ ParaPlainText(heading) = groups[k].name
                       /\ table.kind = "tbl"
                       /\ Len(table.rows) = 1 + Len(rows)
                       /\ C5_RowTexts(table.rows[1]) =
                              <<<<"L", "a", "b", "e", "l">>,
                                <<"T", "e", "x", "t">>, <<"I", "D">>>>
                       /\ \A n \in 1..Len(rows) :
                              C5_RowTexts(table.rows[n + 1]) =
                                  <<Get(rows[n], "layer_name", <<>>),
                                    Get(rows[n], "figma_text", <<>>),
                                    Get(rows[n], "id", <<>>)>>

\* A mapping with a group without records before a group with two records.
C5_Witness ==
    /\ pc = "saved"
    /\ Len(grouped_data) = 2
    /\ grouped_data[1].rows = <<>>
    /\ Len(grouped_data[2].rows) = 2
    /\ Len(C5_Sections(doc)) = 2

----------------------------------------------------------------------------
(* The workflow: csv_to_word builds the document, a user edits Text cells, *)
(* and word_to_csv (with the original CSV) or word_to_csv_new reads the    *)
(* document back.                                                          *)

RoundTripRows ==
    {CsvRow(<<"a">>, <<"G">>, <<"L">>, <<"x">>),
     CsvRow(<<"b">>, <<"G">>, <<"L">>, <<"y">>),
     CsvRow(<<"a">>, <<"G">>, <<"L">>, <<"y">>),
     CsvRow(<<"b">>, <<"H">>, <<"L">>, <<"x", "nbsp">>),
     CsvRow(<<"b">>, <<"G">>, <<"L">>, <<"*", "x">>),
     CsvRow(<<"b">>, <<"G">>, <<"L">>, <<"1", ".", "\t", "x">>),
     CsvRow(<<>>, <<"G">>, <<"L">>, <<"x">>),
     CsvRow(<<"b">>, <<>>, <<"L">>, <<"y">>),
     CsvRow(<<" ", "b">>, <<"G">>, <<"L">>, <<"\"", "y", " ">>),
     CsvRow(<<"b">>, <<"G">>, <<"L">>, <<>>)}

RoundTripCsvs == SeqsUpTo(RoundTripRows, MaxRecs)

\* what a user may leave in a Text cell
EditedCells ==
    {<<[style |-> StyleNormal, runs |-> <<Run(<<"H", "i">>, TRUE, FALSE)>>]>>,
     TextCell(<<"z">>),
     <<[style |-> StyleNormal, runs |-> <<Run(<<"p">>, FALSE, FALSE)>>],
       [style |-> StyleNormal, runs |-> <<Run(<<"q">>, FALSE, TRUE)>>]>>}

\* positions (element, row) of the data rows of a document
DataRowPositions(d) ==
    {<<k, r>> \in (1..Len(d)) \X (2..(MaxRecs + 1)) :
        d[k].kind = "tbl" /\ r <= Len(d[k].rows)}

\* the Text cells that are not as csv_to_word built them
EditedPositions ==
    LET built == create_word_document(grouped_data)
    IN  {p \in DataRowPositions(doc) :
            doc[p[1]].rows[p[2]][2] # built[p[1]].rows[p[2]][2]}

Init ==
    /\ pc = "forward"
    /\ csv_rows \in RoundTripCsvs
    /\ doc = <<>>
    /\ preserve_formatting = TRUE
    /\ ForwardIdle /\ ReverseIdle /\ FileIdle /\ ExtractIdle /\ InferIdle

\* a user rewrites the Text cell of one data row
EditTextCell ==
    /\ pc = "built"
    /\ Cardinality(EditedPositions) < MaxEdits
    /\ \E p \in DataRowPositions(doc) \ EditedPositions :
       \E c \in EditedCells :
           /\ c # doc[p[1]].rows[p[2]][2]
           /\ doc' = [doc EXCEPT ![p[1]].rows[p[2]][2] = c]
    /\ UNCHANGED <<pc, csv_rows, forwardVars, preserve_formatting,
                   reverseVars, fileVars, extractVars, inferVars>>

\* word_to_csv(origin_csv_file_path, word_file_path, csv_file_path, flag)
WordToCsv ==
    /\ pc = "built"
    /\ \E flag \in BOOLEAN :
           /\ preserve_formatting' = flag
           /\ original_csv_data' = read_csv_data(csv_rows)
           /\ word_updates' = read_word_document_data(doc, flag)
           /\ updated_csv_data' =
                  update_csv_with_word_changes(original_csv_data',
                                               word_updates')
           /\ out_csv' = write_csv_data(updated_csv_data').file
           /\ error' = write_csv_data(updated_csv_data').error
    /\ pc' = "reversed"
    /\ UNCHANGED <<csv_rows, forwardVars, doc, extractVars, inferVars>>

\* word_to_csv_new(word_file_path, csv_file_path, flag)
WordToCsvNew ==
    /\ pc = "built"
    /\ \E flag \in BOOLEAN :
           /\ preserve_formatting' = flag
           /\ csv_data' = extract_word_document_to_csv_format(doc, flag)
           /\ out_csv' = write_csv_data(csv_data').file
           /\ error' = write_csv_data(csv_data').error
    /\ pc' = "inferred"
    /\ UNCHANGED <<csv_rows, forwardVars, doc, reverseVars, extractVars,
                   elem_idx, row_idx, current_frame_group>>

Next == CsvToWord \/ EditTextCell \/ WordToCsv \/ WordToCsvNew

Spec == Init /\ [][Next]_vars

TrimmedId(row) == Strip(Get(row, "id", <<>>))

DistinctTrimmedIds(rows) ==
    \A i, j \in 1..Len(rows) : i # j => TrimmedId(rows[i]) # TrimmedId(rows[j])

C3_MarkdownChars == {"*", "_", "-", "bullet", "#", "[", "]", "(", ")"}

C3_NoMarkdown(rows) ==
    \A i \in 1..Len(rows) :
        \A n \in 1..Len(rows[i].figma_text) :
            rows[i].figma_text[n] \notin C3_MarkdownChars

\* The round trip of an unedited document with formatting disabled gives
\* every record whose id is in the extracted map its loaded text back.
C3_TextsComeBack ==
    \A i \in 1..Len(original_csv_data) :
        TrimmedId(original_csv_data[i]) \in DOMAIN word_updates
            => updated_csv_data[i].figma_text = original_csv_data[i].figma_text

\* C3 as stated: for every loaded CSV whose texts hold no Markdown-significant
\* character, build, extract with formatting disabled and reconcile give
\* back the loaded figma_text of every id present in the records and in the
\* map.
C3_RoundTripAsStated ==
    (/\ pc = "reversed"
     /\ ~preserve_formatting
     /\ EditedPositions = {}
     /\ C3_NoMarkdown(original_csv_data))
        => C3_TextsComeBack

\* C3 as amended: the same, for loaded CSVs whose trimmed ids are pairwise
\* distinct and whose texts have no leading or trailing whitespace.
C3_RoundTrip ==
    (/\ pc = "reversed"
     /\ ~preserve_formatting
     /\ EditedPositions = {}
     /\ C3_NoMarkdown(original_csv_data)
     /\ DistinctTrimmedIds(original_csv_data)
     /\ \A i \in 1..Len(original_csv_data) :
            original_csv_data[i].figma_text
                = Strip(original_csv_data[i].figma_text))
        => C3_TextsComeBack

\* Two records with distinct ids, both in the map, the second loaded from a
\* padded CSV field, after the round trip of the unedited document.
C3_Witness ==
    /\ pc = "reversed"
    /\ ~preserve_formatting
    /\ EditedPositions = {}
    /\ Len(original_csv_data) = 2
    /\ C3_NoMarkdown(original_csv_data)
    /\ DistinctTrimmedIds(original_csv_data)
    /\ \A i \in 1..2 : TrimmedId(original_csv_data[i]) \in DOMAIN word_updates
    /\ csv_rows[2].figma_text # original_csv_data[2].figma_text
    /\ original_csv_data[2].figma_text = <<"y">>
    /\ updated_csv_data = original_csv_data
    /\ error = "none"

\* Whether record i has a row in the built document, and its Text cell.
C6_InDoc(i) ==
    LET g == Get(original_csv_data[i], "group", UnknownGroup)
    IN  g # <<>> /\ Strip(g) # <<>>

C6_TextCell(i) ==
    LET g == Get(original_csv_data[i], "group", UnknownGroup)
        k == CHOOSE n \in 1..Len(grouped_data) : grouped_data[n].name = g
        r == Cardinality({j \in 1..i :
                 Get(original_csv_data[j], "group", UnknownGroup) = g})
    IN  Tables(doc)[k].rows[r + 1][2]

C6_Edited(i) ==
    /\ C6_InDoc(i)
    /\ C6_TextCell(i) # TextCell(original_csv_data[i].figma_text)

\* C6 as stated: reversing, with formatting enabled, a built document of
\* records with distinct ids in which some Text cells were edited gives each
\* edited record the Markdown rendering of its cell and each unedited record
\* its original figma_text.
C6_ReverseAsStated ==
    (/\ pc = "reversed"
     /\ preserve_formatting
     /\ \A i, j \in 1..Len(original_csv_data) :
            i # j => original_csv_data[i].id # original_csv_data[j].id)
        => \A i \in 1..Len(original_csv_data) :
               updated_csv_data[i].figma_text =
                   IF C6_Edited(i)
                   THEN extract_formatted_text_from_cell(C6_TextCell(i), TRUE)
                   ELSE original_csv_data[i].figma_text

\* A text the extractor returns as it is from an unedited cell: no leading
\* or trailing whitespace, no leading bullet, no leading ordered-list marker.
C6_Stable(t) ==
    /\ t = Strip(t)
    /\ t # <<>> => Head(t) \notin Bullets /\ NumberedMarker(t) = <<>>

\* C6 as amended: for records whose trimmed ids are non-empty and pairwise
\* distinct, every record with a row in the document, edited or not, gets
\* the Markdown rendering of its Text cell; for an unedited record this is
\* its original figma_text when that text has no leading or trailing
\* whitespace and does not start with a bullet or an ordered-list marker;
\* records without a row in the document are unchanged.
C6_Reverse ==
    (/\ pc = "reversed"
     /\ preserve_formatting
     /\ DistinctTrimmedIds(original_csv_data)
     /\ \A i \in 1..Len(original_csv_data) :
            TrimmedId(original_csv_data[i]) # <<>>)
        => \A i \in 1..Len(original_csv_data) :
               /\ C6_InDoc(i) =>
                      updated_csv_data[i].figma_text =
                          extract_formatted_text_from_cell(C6_TextCell(i), TRUE)
               /\ (~C6_Edited(i) /\ C6_Stable(original_csv_data[i].figma_text))
                      => updated_csv_data[i] = original_csv_data[i]
               /\ ~C6_InDoc(i) => updated_csv_data[i] = original_csv_data[i]

\* The first record's cell edited to a bold Hi, the second left alone.
C6_Witness ==
    /\ pc = "reversed"
    /\ preserve_formatting
    /\ Len(original_csv_data) = 2
    /\ DistinctTrimmedIds(original_csv_data)
    /\ C6_Edited(1)
    /\ ~C6_Edited(2) /\ C6_InDoc(2)
    /\ updated_csv_data[1].figma_text = <<"*", "*", "H", "i", "*", "*">>
    /\ updated_csv_data[1].id = original_csv_data[1].id
    /\ updated_csv_data[2] = original_csv_data[2]
    /\ out_csv.exists

\* C10: write_csv_data on an empty record sequence raises and creates no
\* file: the reverse path on a CSV without data rows and the inference path
\* on a document that yields no record both end in ValueError with the
\* destination absent.
C10_EmptyWriteFails ==
    /\ (pc = "reversed" /\ original_csv_data = <<>>)
           => (error = "ValueError" /\ ~out_csv.exists)
    /\ (pc = "inferred" /\ csv_data = <<>>)
           => (error = "ValueError" /\ ~out_csv.exists)
    /\ (pc \in {"reversed", "inferred"} /\ ~out_csv.exists)
           => error = "ValueError"

\* The reverse path has run on a header-only CSV and its built document.
C10_Witness ==
    /\ pc = "reversed"
    /\ csv_rows = <<>>
    /\ original_csv_data = <<>>
    /\ updated_csv_data = <<>>
    /\ error = "ValueError"

\* The inference path has run on a document whose rows yield no record.
C10_WitnessInfer ==
    /\ pc = "inferred"
    /\ Len(Tables(doc)) >= 1
    /\ csv_data = <<>>
    /\ error = "ValueError"

----------------------------------------------------------------------------
(* Schema inference step by step: the loop over doc.element.body, one      *)
(* paragraph or one table row per step.  A document is described by the    *)
(* items it is made of, in order: a paragraph, the start of a new table,   *)
(* or a row added to the table that is being filled.                       *)

MaxItems == 4

InferLabel == <<"L">>
InferText  == <<"x">>
InferId    == <<"a", "1">>

InferParagraphs ==
    {Paragraph(StyleHeading1, <<Run(<<"S">>, FALSE, FALSE)>>),
     Paragraph(StyleNormal, <<Run(<<"n">>, FALSE, FALSE)>>)}

NewTable == [kind |-> "tbl", rows |-> <<>>]

\* the header row and data rows of a built document, a row without text, a
\* row without an id, rows of one, two and four cells
InferRowKinds ==
    {HeaderRow,
     <<TextCell(InferLabel), TextCell(InferText), TextCell(InferId)>>,
     <<TextCell(InferLabel), TextCell(InferText), TextCell(<<>>)>>,
     <<TextCell(InferLabel), TextCell(<<" ">>), TextCell(InferId)>>,
     <<TextCell(InferLabel), TextCell(InferText)>>,
     <<TextCell(InferText)>>,
     <<TextCell(InferText), TextCell(InferLabel), TextCell(InferId),
       TextCell(InferLabel)>>}

InferItems ==
    InferParagraphs \cup {NewTable}
        \cup {[kind |-> "row", cells |-> r] : r \in InferRowKinds}

\* the body after one more item
AddItem(body, item) ==
    IF item.kind = "row"
    THEN IF body # <<>> /\ body[Len(body)].kind = "tbl"
         THEN [body EXCEPT ![Len(body)].rows = Append(@, item.cells)]
         ELSE Append(body, [kind |-> "tbl", rows |-> <<item.cells>>])
    ELSE Append(body, item)

RECURSIVE BodyOf(_)
BodyOf(items) ==
    IF items = <<>> THEN <<>>
    ELSE AddItem(BodyOf(SubSeq(items, 1, Len(items) - 1)), items[Len(items)])

InferDocs == {BodyOf(items) : items \in SeqsUpTo(InferItems, MaxItems)}

InitInfer ==
    /\ pc = "scan"
    /\ doc \in InferDocs
    /\ preserve_formatting \in BOOLEAN
    /\ csv_rows = <<>>
    /\ elem_idx = 0
    /\ row_idx = 0
    /\ csv_data = <<>>
    /\ current_frame_group = GeneralContent
    /\ ForwardIdle /\ ReverseIdle /\ FileIdle /\ ExtractIdle

\* a body element that is a paragraph
ScanParagraph ==
    /\ pc = "scan"
    /\ elem_idx < Len(doc)
    /\ doc[elem_idx + 1].kind = "p"
    /\ current_frame_group' = InferSection(current_frame_group,
                                           doc[elem_idx + 1])
    /\ elem_idx' = elem_idx + 1
    /\ UNCHANGED <<pc, csv_rows, forwardVars, doc, preserve_formatting,
                   reverseVars, fileVars, extractVars, row_idx, csv_data>>

\* a body element that is a table: enumerate(table.rows) starts
ScanTable ==
    /\ pc = "scan"
    /\ elem_idx < Len(doc)
    /\ doc[elem_idx + 1].kind = "tbl"
    /\ pc' = "rows"
    /\ row_idx' = 0
    /\ UNCHANGED <<csv_rows, forwardVars, doc, preserve_formatting,
                   reverseVars, fileVars, extractVars, elem_idx, csv_data,
                   current_frame_group>>

\* one iteration of the loop over table.rows
ScanRow ==
    /\ pc = "rows"
    /\ row_idx < Len(doc[elem_idx + 1].rows)
    /\ csv_data' = InferRow(csv_data, current_frame_group,
                            doc[elem_idx + 1].rows[row_idx + 1],
                            preserve_formatting)
    /\ row_idx' = row_idx + 1
    /\ UNCHANGED <<pc, csv_rows, forwardVars, doc, preserve_formatting,
                   reverseVars, fileVars, extractVars, elem_idx,
                   current_frame_group>>

\* the rows of the table are exhausted: break, next body element
EndTable ==
    /\ pc = "rows"
    /\ row_idx = Len(doc[elem_idx + 1].rows)
    /\ pc' = "scan"
    /\ elem_idx' = elem_idx + 1
    /\ UNCHANGED <<csv_rows, forwardVars, doc, preserve_formatting,
                   reverseVars, fileVars, extractVars, row_idx, csv_data,
                   current_frame_group>>

\* return csv_data, then write_csv_data(csv_data, csv_file_path)
InferReturn ==
    /\ pc = "scan"
    /\ elem_idx = Len(doc)
    /\ out_csv' = write_csv_data(csv_data).file
    /\ error' = write_csv_data(csv_data).error
    /\ pc' = "inferred"
    /\ UNCHANGED <<csv_rows, forwardVars, doc, preserve_formatting,
                   reverseVars, extractVars, inferVars>>

NextInfer ==
    ScanParagraph \/ ScanTable \/ ScanRow \/ EndTable \/ InferReturn

SpecInfer == InitInfer /\ [][NextInfer]_vars

C9_Prefix == <<"g", "e", "n", "e", "r", "a", "t", "e", "d", "_">>

\* A row the scan passes without emitting a record: the header row, a row
\* of one cell, a row of two or three cells whose text cell is blank.
C9_Skipped(cells) ==
    \/ cells = HeaderRow
    \/ Len(cells) = 1
    \/ Len(cells) \in {2, 3} /\ Strip(CellText(cells[2])) = <<>>

\* C9: in one inference scan every step over a table row emits at most one
\* record, after the records emitted before it; header rows, rows dropped
\* for empty text and rows of one cell emit nothing; and an emitted record
\* with a synthesized id has the id generated_<n>, n being 1 plus the number
\* of records emitted so far in the scan, whatever the table.
C9_SharedCounter ==
    [][(pc = "rows" /\ pc' = "rows") =>
          LET cells == doc[elem_idx + 1].rows[row_idx + 1]
              n == Len(csv_data) + 1
          IN  /\ C9_Skipped(cells) => csv_data' = csv_data
              /\ csv_data' # csv_data =>
                     /\ Len(csv_data') = n
                     /\ SubSeq(csv_data', 1, Len(csv_data)) = csv_data
                     /\ StartsWith(csv_data'[n].id, C9_Prefix) =>
                            csv_data'[n].id = C9_Prefix \o DecimalText(n)
                     /\ csv_data'[n].id \in
                            {InferId, C9_Prefix \o DecimalText(n)}]_vars

\* Two tables have been scanned: the row of the first got generated_1; the
\* second table has a row dropped for empty text and then a row without an
\* id, which got generated_2.
C9_Witness ==
    /\ pc = "scan"
    /\ Len(doc) = 2 /\ elem_idx = 2
    /\ doc[1].kind = "tbl" /\ Len(doc[1].rows) = 1
    /\ doc[2].kind = "tbl" /\ Len(doc[2].rows) = 2
    /\ C9_Skipped(doc[2].rows[1])
    /\ Len(doc[2].rows[2]) = 3
    /\ Len(csv_data) = 2
    /\ csv_data[1].id = <<"g", "e", "n", "e", "r", "a", "t", "e", "d", "_", "1">>
    /\ csv_data[2].id = <<"g", "e", "n", "e", "r", "a", "t", "e", "d", "_", "2">>

----------------------------------------------------------------------------
(* The workflow on a CSV that has no figma_text column: csv_to_word builds *)
(* empty Text cells, and update_csv_with_word_changes adds the key to the  *)
(* records it updates.                                                     *)

NoTextRow(i, g) == [id |-> i, group |-> g, layer_name |-> <<"L">>]

NoTextRows ==
    {NoTextRow(<<"a">>, <<"G">>), NoTextRow(<<"b">>, <<"G">>),
     NoTextRow(<<>>, <<"G">>), NoTextRow(<<"b">>, <<" ">>)}

NoTextCsvs == SeqsUpTo(NoTextRows, MaxRecs)

InitNoText ==
    /\ pc = "forward"
    /\ csv_rows \in NoTextCsvs
    /\ doc = <<>>
    /\ preserve_formatting = TRUE
    /\ ForwardIdle /\ ReverseIdle /\ FileIdle /\ ExtractIdle /\ InferIdle

SpecNoText == InitNoText /\ [][Next]_vars

\* C11: an entry point that ends in an error has not created or written
\* its destination file, also when a record given to the writer has a key
\* that the first record lacks.
C11_NoPartialWrite ==
    (pc \in {"built", "reversed", "inferred"} /\ error # "none")
        => ~out_csv.exists

----------------------------------------------------------------------------
(* read_word_document_data and update_csv_with_word_changes on documents   *)
(* that csv_to_word did not build: tables whose first row is a data row,   *)
(* rows of two cells, ids that are blank, padded or repeated.              *)

ReadRow3(t, i) == <<TextCell(<<"L">>), TextCell(t), TextCell(i)>>

\* a new table with its row 0
ReadTableStarts ==
    {[kind |-> "tbl", rows |-> <<HeaderRow>>],
     [kind |-> "tbl", rows |-> <<ReadRow3(<<"x">>, <<"b">>)>>]}

ReadRowKinds ==
    {ReadRow3(<<"x">>, <<"a">>),
     ReadRow3(<<"y">>, <<"a">>),
     ReadRow3(<<"y">>, <<" ", "a", "\n">>),
     ReadRow3(<<"x">>, <<" ">>),
     <<TextCell(<<"x">>), TextCell(<<"a">>)>>}

ReadItems ==
    ReadTableStarts \cup {[kind |-> "row", cells |-> r] : r \in ReadRowKinds}

ReadDocs == {BodyOf(items) : items \in SeqsUpTo(ReadItems, MaxItems)}

ReadOriginals ==
    {<<CsvRow(<<"a">>, <<"G">>, <<"L">>, <<"o">>),
       CsvRow(<<"b">>, <<"G">>, <<"L">>, <<"o">>),
       CsvRow(<<"a">>, <<"H">>, <<"L">>, <<"p">>)>>,
     <<CsvRow(<<"b">>, <<"G">>, <<"L">>, <<"o">>)>>}

InitRead ==
    /\ pc = "read"
    /\ doc \in ReadDocs
    /\ original_csv_data \in ReadOriginals
    /\ preserve_formatting \in BOOLEAN
    /\ csv_rows = <<>>
    /\ word_updates = <<>>
    /\ updated_csv_data = <<>>
    /\ ForwardIdle /\ FileIdle /\ ExtractIdle /\ InferIdle

\* word_updates = read_word_document_data(word_file_path, flag)
ReadWordDocument ==
    /\ pc = "read"
    /\ word_updates' = read_word_document_data(doc, preserve_formatting)
    /\ pc' = "mapped"
    /\ UNCHANGED <<csv_rows, forwardVars, doc, preserve_formatting,
                   original_csv_data, updated_csv_data, fileVars,
                   extractVars, inferVars>>

\* updated_csv_data = update_csv_with_word_changes(original, word_updates)
ApplyUpdates ==
    /\ pc = "mapped"
    /\ updated_csv_data' =
           update_csv_with_word_changes(original_csv_data, word_updates)
    /\ pc' = "updated"
    /\ UNCHANGED <<csv_rows, forwardVars, doc, preserve_formatting,
                   original_csv_data, word_updates, fileVars, extractVars,
                   inferVars>>

NextRead == ReadWordDocument \/ ApplyUpdates

SpecRead == InitRead /\ [][NextRead]_vars

\* positions (table, row) of the rows with index >= 1 and at least 3 cells
C12_Rows ==
    {p \in (1..Len(Tables(doc))) \X (2..(MaxItems + 1)) :
        /\ p[2] <= Len(Tables(doc)[p[1]].rows)
        /\ Len(Tables(doc)[p[1]].rows[p[2]]) >= 3}

C12_IdAt(p) == Strip(CellText(Tables(doc)[p[1]].rows[p[2]][3]))

\* the last row with id i in document order
C12_Last(i) ==
    CHOOSE p \in C12_Rows :
        /\ C12_IdAt(p) = i
        /\ \A q \in C12_Rows :
               C12_IdAt(q) = i =>
                   \/ q[1] < p[1]
                   \/ q[1] = p[1] /\ q[2] <= p[2]

\* C12: the map has an entry for exactly the non-empty trimmed ids in
\* column 3 of the rows with index >= 1 and at least 3 cells of all tables;
\* an id's entry is the text of the last such row in document order, and
\* reconciliation writes it into every record with that id.
C12_ExtractedMap ==
    /\ pc \in {"mapped", "updated"} =>
           /\ DOMAIN word_updates = {C12_IdAt(p) : p \in C12_Rows} \ {<<>>}
           /\ \A i \in DOMAIN word_updates :
                  word_updates[i] =
                      LET p == C12_Last(i)
                      IN  extract_formatted_text_from_cell(
                              Tables(doc)[p[1]].rows[p[2]][2],
                              preserve_formatting)
    /\ pc = "updated" =>
           \A n \in 1..Len(original_csv_data) :
               Strip(original_csv_data[n].id) \in DOMAIN word_updates =>
                   updated_csv_data[n].figma_text =
                       word_updates[Strip(original_csv_data[n].id)]

\* Two tables: row 0 of the first holds id b, which gets no entry; id a is in
\* a data row of each, and both records with id a got the later text.
C12_Witness ==
    /\ pc = "updated"
    /\ Len(doc) = 2
    /\ doc[1].rows[1] = ReadRow3(<<"x">>, <<"b">>)
    /\ Len(doc[1].rows) = 2 /\ Len(doc[2].rows) = 2
    /\ doc[1].rows[2][2] = TextCell(<<"x">>)
    /\ DOMAIN word_updates = {<<"a">>}
    /\ word_updates[<<"a">>] = <<"y">>
    /\ Len(original_csv_data) = 3
    /\ updated_csv_data[1].figma_text = <<"y">>
    /\ updated_csv_data[3].figma_text = <<"y">>
    /\ updated_csv_data[2] = original_csv_data[2]

----------------------------------------------------------------------------
(* The inference scan on documents with several kinds of paragraph between *)
(* their tables.                                                           *)

SectionParagraphs ==
    {Paragraph(StyleHeading1, <<Run(<<"S">>, FALSE, FALSE)>>),
     Paragraph(StyleTitle, <<Run(<<" ", "T">>, FALSE, FALSE),
                             Run(<<" ">>, TRUE, FALSE)>>),
     Paragraph(StyleHeading1, <<Run(<<" ">>, FALSE, FALSE)>>),
     Paragraph(StyleNormal, <<Run(<<"n">>, FALSE, FALSE)>>)}

SectionItems ==
    SectionParagraphs
        \cup {[kind |-> "row",
               cells |-> <<TextCell(InferLabel), TextCell(InferText)>>]}

SectionDocs == {BodyOf(items) : items \in SeqsUpTo(SectionItems, MaxItems)}

InitSections ==
    /\ pc = "scan"
    /\ doc \in SectionDocs
    /\ preserve_formatting \in BOOLEAN
    /\ csv_rows = <<>>
    /\ elem_idx = 0
    /\ row_idx = 0
    /\ csv_data = <<>>
    /\ current_frame_group = GeneralContent
    /\ ForwardIdle /\ ReverseIdle /\ FileIdle /\ ExtractIdle

SpecSections == InitSections /\ [][NextInfer]_vars

\* A paragraph that names a section: heading- or title-styled, with text.
C13_NamesSection(e) ==
    /\ e.kind = "p"
    /\ \/ Contains(LowerText(e.style), LowerText(<<"H", "e", "a", "d", "i", "n", "g">>))
       \/ Contains(LowerText(e.style), LowerText(StyleTitle))
    /\ Strip(ParaPlainText(e)) # <<>>

\* The section of element k: the trimmed text of the nearest paragraph
\* before it that names a section, or General Content.
C13_SectionOf(k) ==
    LET before == {j \in 1..(k - 1) : C13_NamesSection(doc[j])}
    IN  IF before = {} THEN GeneralContent
        ELSE Strip(ParaPlainText(doc[CHOOSE j \in before :
                                         \A i \in before : i <= j]))

\* C13: a record emitted from a table has frame = group = the trimmed text
\* of the nearest heading- or title-styled paragraph with text before the
\* table, or General Content when there is none; a paragraph that is no
\* such heading leaves the current section as it is.
C13_NearestHeading ==
    [][/\ (pc = "rows" /\ pc' = "rows" /\ csv_data' # csv_data) =>
              /\ csv_data'[Len(csv_data')].frame = C13_SectionOf(elem_idx + 1)
              /\ csv_data'[Len(csv_data')].group = C13_SectionOf(elem_idx + 1)
       /\ (pc = "scan" /\ elem_idx' = elem_idx + 1
               /\ ~C13_NamesSection(doc[elem_idx + 1])) =>
              current_frame_group' = current_frame_group
       /\ \A n \in 1..Len(csv_data) :
              /\ Len(csv_data') >= n
              /\ csv_data'[n].frame = csv_data[n].frame
              /\ csv_data'[n].group = csv_data[n].group]_vars

\* A table before any heading, a padded title, a blank heading, a table:
\* the first record is under General Content, the second under T.
C13_Witness ==
    /\ pc = "inferred"
    /\ Len(doc) = 4
    /\ doc[1].kind = "tbl"
    /\ C13_NamesSection(doc[2]) /\ ParaPlainText(doc[2]) = <<" ", "T", " ">>
    /\ doc[3].kind = "p" /\ doc[3].style = StyleHeading1
    /\ ~C13_NamesSection(doc[3])
    /\ doc[4].kind = "tbl"
    /\ Len(csv_data) = 2
    /\ csv_data[1].frame = GeneralContent /\ csv_data[1].group = GeneralContent
    /\ csv_data[2].frame = <<"T">> /\ csv_data[2].group = <<"T">>

----------------------------------------------------------------------------
(* The inference scan on one table, with or without a heading before it,   *)
(* whose rows are of every kind the column rules tell apart.               *)

MaxTableRows == 2

\* 11 characters with a marker, 10 with a marker, 11 without one
InferLongId  == <<"1", "2", ":", "4", "5", "6", "7", "8", "9", "0", "1">>
InferTenId   == <<"1", "2", "-", "4", "5", "6", "7", "8", "9", "0">>
InferPlainId == <<"1", "2", "3", "4", "5", "6", "7", "8", "9", "0", "1">>

TextRow(texts) == [i \in 1..Len(texts) |-> TextCell(texts[i])]

ThreeCellRows ==
    {TextRow(<<InferLabel, InferText, i>>) :
        i \in {InferLongId, InferTenId, InferPlainId, InferId, <<>>}}
    \cup {TextRow(<<InferLongId, InferLabel, InferText>>),
          TextRow(<<InferTenId, InferLabel, InferText>>),
          TextRow(<<InferLongId, InferText, InferLongId>>),
          TextRow(<<InferLongId, InferLabel, <<>>>>),
          TextRow(<<InferLongId, <<" ">>, InferText>>),
          TextRow(<<<<" ">>, InferText, InferId>>),
          TextRow(<<InferLabel, <<" ">>, InferId>>),
          <<TextCell(InferLabel), HeaderCell(InferText), TextCell(InferId)>>}

TwoCellRows ==
    {TextRow(<<InferLabel, InferText>>),
     TextRow(<<InferLongId, InferText>>),
     TextRow(<<<<>>, InferText>>),
     TextRow(<<InferLabel, <<>>>>)}

HeaderLikeRows ==
    {HeaderRow,
     TextRow(<<<<"C", "o", "m", "p", "o", "n", "e", "n", "t">>,
               <<" ", "D", "E", "S", "C", "R", "I", "P", "T", "I", "O", "N">>,
               <<"i", "d">>>>),
     TextRow(<<<<"l", "a", "b", "e", "l">>, <<"T", "e", "x", "t">>>>),
     TextRow(<<<<"L", "a", "b", "e", "l">>, <<"T", "e", "x", "t">>,
               <<"I", "D", "s">>>>),
     TextRow(<<<<"L", "a", "b", "e", "l">>, InferText, <<"I", "D">>>>),
     TextRow(<<<<"T", "e", "x", "t">>, <<"L", "a", "b", "e", "l">>>>)}

OtherRows ==
    {TextRow(<<InferText>>),
     TextRow(<<InferText, InferLabel, InferId, InferLabel>>),
     TextRow(<<<<" ">>, InferLabel, InferId, InferLabel>>)}

RowKinds == ThreeCellRows \cup TwoCellRows \cup HeaderLikeRows \cup OtherRows

RowTables ==
    {[kind |-> "tbl", rows |-> rs] : rs \in SeqsUpTo(RowKinds, MaxTableRows)}

RowDocs ==
    {<<t>> : t \in RowTables}
        \cup {<<Paragraph(StyleHeading1, <<Run(<<"S">>, FALSE, FALSE)>>), t>> :
                 t \in RowTables}

InitRows ==
    /\ pc = "scan"
    /\ doc \in RowDocs
    /\ preserve_formatting \in BOOLEAN
    /\ csv_rows = <<>>
    /\ elem_idx = 0
    /\ row_idx = 0
    /\ csv_data = <<>>
    /\ current_frame_group = GeneralContent
    /\ ForwardIdle /\ ReverseIdle /\ FileIdle /\ ExtractIdle

SpecRows == InitRows /\ [][NextInfer]_vars

\* the row a step of the loop over table.rows is about, and the extracted
\* text of its i-th cell
ScannedRow == doc[elem_idx + 1].rows[row_idx + 1]

ColText(cells, i) ==
    extract_formatted_text_from_cell(cells[i], preserve_formatting)

\* C14: a row whose cell count is neither 2 nor 3, a row of one cell
\* included, and whose first cell has text is emitted with that text as
\* figma_text, layer_name Content and a synthesized id.
C14_OtherCellCounts ==
    [][(pc = "rows" /\ pc' = "rows") =>
          LET cells == ScannedRow
              n == Len(csv_data) + 1
          IN  (Len(cells) \notin {2, 3} /\ Strip(ColText(cells, 1)) # <<>>) =>
                  /\ Len(csv_data') = n
                  /\ csv_data'[n].figma_text = ColText(cells, 1)
                  /\ csv_data'[n].layer_name = ContentLabel
                  /\ csv_data'[n].id = C9_Prefix \o DecimalText(n)]_vars

\* the id test as the claim words it
C15_LooksLikeId(t) ==
    /\ \/ \E k \in 1..Len(t) : t[k] \in {":", ";", "_", "-"}
       \/ Contains(t, <<"I", "2", "0", "1", "6">>)
       \/ Contains(t, <<"I", "-">>)
    /\ Len(t) > 10

\* a row skipped as a header, as the claim words it
C16_Header(cells) ==
    LET t(i) == LowerText(Strip(CellText(cells[i])))
        labels == {<<"l", "a", "b", "e", "l">>,
                   <<"c", "o", "m", "p", "o", "n", "e", "n", "t">>}
        texts == {<<"t", "e", "x", "t">>,
                  <<"d", "e", "s", "c", "r", "i", "p", "t", "i", "o", "n">>}
    IN  \/ Len(cells) = 3 /\ t(1) \in labels /\ t(2) \in texts
                          /\ t(3) = <<"i", "d">>
        \/ Len(cells) = 2 /\ t(1) \in labels /\ t(2) \in texts

\* layer_name, figma_text and id the claim gives a 3-column row, n being the
\* number of the record
C15_Layout(cells, n) ==
    LET c1 == ColText(cells, 1)
        c2 == ColText(cells, 2)
        c3 == ColText(cells, 3)
    IN  IF C15_LooksLikeId(c3)
        THEN [layer_name |-> c1, figma_text |-> c2, id |-> c3]
        ELSE IF C15_LooksLikeId(c1)
        THEN [layer_name |-> c2, figma_text |-> c3, id |-> c1]
        ELSE [layer_name |-> c1, figma_text |-> c2,
              id |-> IF Strip(c3) = <<>> THEN C9_Prefix \o DecimalText(n)
                     ELSE c3]

\* C15 as stated: the record of a 3-column row that is no header has the
\* fields of the layout chosen by the id test on column 3, then column 1.
C15_LayoutAsStated ==
    [][(pc = "rows" /\ pc' = "rows" /\ csv_data' # csv_data) =>
          LET cells == ScannedRow
              n == Len(csv_data) + 1
              f == C15_Layout(cells, n)
          IN  (Len(cells) = 3 /\ ~C16_Header(cells)) =>
                  /\ csv_data'[n].layer_name = f.layer_name
                  /\ csv_data'[n].figma_text = f.figma_text
                  /\ csv_data'[n].id = f.id]_vars

\* C15 as amended: the same, the layer_name being Content when the label
\* column of the layout is blank.
C15_ColumnLayout ==
    [][(pc = "rows" /\ pc' = "rows" /\ csv_data' # csv_data) =>
          LET cells == ScannedRow
              n == Len(csv_data) + 1
              f == C15_Layout(cells, n)
          IN  (Len(cells) = 3 /\ ~C16_Header(cells)) =>
                  /\ csv_data'[n].layer_name =
                         IF Strip(f.layer_name) = <<>> THEN ContentLabel
                         ELSE f.layer_name
                  /\ csv_data'[n].figma_text = f.figma_text
                  /\ csv_data'[n].id = f.id]_vars

\* Two rows scanned: the first read as (ID, Label, Text) because column 1
\* passes the id test and column 3 does not; the second, with a column 3 of
\* 10 characters, read as (Label, Text, ID).
C15_Witness ==
    /\ pc = "rows" /\ row_idx = 2
    /\ doc[elem_idx + 1].rows[1] = TextRow(<<InferLongId, InferLabel, InferText>>)
    /\ doc[elem_idx + 1].rows[2] = TextRow(<<InferLabel, InferText, InferTenId>>)
    /\ Len(csv_data) = 2
    /\ csv_data[1].id = InferLongId
    /\ csv_data[1].layer_name = InferLabel
    /\ csv_data[1].figma_text = InferText
    /\ csv_data[2].id = InferTenId
    /\ csv_data[2].layer_name = InferLabel

\* the text column of a row of 2 or 3 cells
C16_TextOf(cells) ==
    IF Len(cells) = 3 THEN C15_Layout(cells, 0).figma_text
    ELSE ColText(cells, 2)

\* C16: a row of 2 or 3 cells emits nothing when its trimmed lower-cased
\* cell texts are (label|component, text|description, id) or
\* (label|component, text|description), at any row index; every other row
\* of 2 or 3 cells is processed as data: it emits a record if and only if
\* its text is not blank.
C16_HeaderRows ==
    [][(pc = "rows" /\ pc' = "rows") =>
          LET cells == ScannedRow
          IN  Len(cells) \in {2, 3} =>
                  IF C16_Header(cells) THEN csv_data' = csv_data
                  ELSE (Len(csv_data') = Len(csv_data) + 1)
                           <=> (Strip(C16_TextOf(cells)) # <<>>)]_vars

\* Row 0 starts with Label and ends with ID but is no header and was
\* emitted; row 1 is a header in other letter cases and was skipped.
C16_Witness ==
    /\ pc = "rows" /\ row_idx = 2
    /\ doc[elem_idx + 1].rows[1] =
           TextRow(<<<<"L", "a", "b", "e", "l">>, InferText, <<"I", "D">>>>)
    /\ C16_Header(doc[elem_idx + 1].rows[2])
    /\ doc[elem_idx + 1].rows[2] # HeaderRow
    /\ Len(csv_data) = 1
    /\ csv_data[1].figma_text = InferText

\* C17 as stated: an emitted 2-column row that is no header has layer_name
\* from column 1, figma_text from column 2 and a synthesized id.
C17_TwoColumnsAsStated ==
    [][(pc = "rows" /\ pc' = "rows" /\ csv_data' # csv_data) =>
          LET cells == ScannedRow
              n == Len(csv_data) + 1
          IN  (Len(cells) = 2 /\ ~C16_Header(cells)) =>
                  /\ csv_data'[n].layer_name = ColText(cells, 1)
                  /\ csv_data'[n].figma_text = ColText(cells, 2)
                  /\ csv_data'[n].id = C9_Prefix \o DecimalText(n)]_vars

\* C17 as amended: the same, the layer_name being Content when column 1 is
\* blank.
C17_TwoColumns ==
    [][(pc = "rows" /\ pc' = "rows" /\ csv_data' # csv_data) =>
          LET cells == ScannedRow
              n == Len(csv_data) + 1
          IN  (Len(cells) = 2 /\ ~C16_Header(cells)) =>
                  /\ csv_data'[n].layer_name =
                         IF Strip(ColText(cells, 1)) = <<>> THEN ContentLabel
                         ELSE ColText(cells, 1)
                  /\ csv_data'[n].figma_text = ColText(cells, 2)
                  /\ csv_data'[n].id = C9_Prefix \o DecimalText(n)]_vars

\* Two rows of two cells: the second has a column 1 that passes the id
\* test, which became its layer_name, its id being generated_2.
C17_Witness ==
    /\ pc = "rows" /\ row_idx = 2
    /\ doc[elem_idx + 1].rows[1] = TextRow(<<InferLabel, InferText>>)
    /\ doc[elem_idx + 1].rows[2] = TextRow(<<InferLongId, InferText>>)
    /\ Len(csv_data) = 2
    /\ csv_data[2].layer_name = InferLongId
    /\ csv_data[2].figma_text = InferText
    /\ csv_data[2].id = <<"g", "e", "n", "e", "r", "a", "t", "e", "d", "_", "2">>

RECURSIVE C18_Join(_, _)
\* The texts of the paragraphs that are not blank, in order: nothing before
\* the first, a newline before a later list item, a space before a later
\* paragraph that is no list item.
C18_Join(paras, acc) ==
    IF paras = <<>> THEN acc
    ELSE LET text == ParagraphText(Head(paras))
             sep == IF ClassifyParagraph(Head(paras)).is_list_item
                    THEN <<"\n">> ELSE <<" ">>
         IN  IF Strip(AssembleRuns(Head(paras).runs, <<>>)) = <<>>
             THEN C18_Join(Tail(paras), acc)
             ELSE IF acc = <<>> THEN C18_Join(Tail(paras), text)
             ELSE C18_Join(Tail(paras), acc \o sep \o text)

\* C18: with formatting enabled the extracted cell text is the trimmed
\* concatenation of the non-blank paragraph texts in order, with nothing
\* before the first, one newline before every later list item and one space
\* before every later paragraph that is no list item.
C18_ParagraphJoin ==
    (pc = "returned" /\ preserve_formatting)
        => formatted_text = Strip(C18_Join(cell, <<>>))

\* A plain paragraph followed by a bullet paragraph: joined by a newline.
C18_Witness ==
    /\ pc = "returned" /\ preserve_formatting
    /\ Len(cell) = 2
    /\ ~ClassifyParagraph(cell[1]).is_list_item
    /\ ClassifyParagraph(cell[2]).is_list_item
    /\ formatted_text = <<"a", "\n", "-", " ", "a">>

\* Two plain paragraphs, the first blank: joined without a separator.
C18_WitnessBlank ==
    /\ pc = "returned" /\ preserve_formatting
    /\ Len(cell) = 2
    /\ cell[1].runs = <<Run(<<>>, TRUE, FALSE)>>
    /\ formatted_text = <<"a">>

\* C20: the text of a paragraph classified as an unordered-list item,
\* whatever the flags of its runs, is "- " followed by the paragraph's
\* rendered text without its one leading bullet character (and the
\* whitespace after it): the character removed is the bullet, never an
\* emphasis marker.
C20_BulletRemoved ==
    (preserve_formatting /\ para_idx >= 1) =>
        LET para == cell[para_idx]
            cls == ClassifyParagraph(para)
            rendered == Strip(C7_Rendered(para.runs, <<>>))
            plain == Strip(ParaPlainText(para))
        IN  (cls.is_list_item /\ ~cls.is_numbered_list) =>
                \E k \in 1..Len(rendered) :
                    /\ rendered[k] = Head(plain)
                    /\ \A j \in 1..(k - 1) : rendered[j] = "*"
                    /\ para_text = <<"-", " ">>
                           \o Strip(SubSeq(rendered, 1, k - 1)
                                        \o Drop(rendered, k))

\* the groups that list record i of data
C19_GroupsOf(i) ==
    {grouped_data[k].name : k \in
        {k \in 1..Len(grouped_data) :
            \E n \in 1..Len(grouped_data[k].rows) :
                grouped_data[k].rows[n] = data[i]}}

RECURSIVE C19_DataRows(_)
\* the number of rows after row 0 in the tables of a document
C19_DataRows(d) ==
    IF d = <<>> THEN 0
    ELSE (IF Head(d).kind = "tbl" THEN Len(Head(d).rows) - 1 ELSE 0)
             + C19_DataRows(Tail(d))

\* C19: a record without a group field is listed under Unknown Group; a
\* record with a group field is listed, under its group value and no other,
\* if and only if the value is not empty after trimming; the tables of the
\* built document have one row for each listed record and none for the
\* others.
C19_GroupMembership ==
    pc = "built" =>
        /\ \A i \in 1..Len(data) :
               IF "group" \notin DOMAIN data[i]
               THEN C19_GroupsOf(i) = {UnknownGroup}
               ELSE IF Strip(data[i].group) # <<>>
               THEN C19_GroupsOf(i) = {data[i].group}
               ELSE C19_GroupsOf(i) = {}
        /\ C19_DataRows(doc) =
               Cardinality({i \in 1..Len(data) :
                   "group" \in DOMAIN data[i] => Strip(data[i].group) # <<>>})

\* A CSV with a record whose group is empty, one whose group is a
\* no-break space and one in group G: one group, one table row.
C19_Witness ==
    /\ pc = "built"
    /\ Len(data) = 3
    /\ \E i, j, k \in 1..3 :
           /\ data[i].group = <<>>
           /\ data[j].group = <<"nbsp">>
           /\ data[k].group = <<"G">>
    /\ Len(grouped_data) = 1
    /\ Len(grouped_data[1].rows) = 1
    /\ C19_DataRows(doc) = 1

\* A CSV without a group column: every record is under Unknown Group.
C19_WitnessUnknown ==
    /\ pc = "built"
    /\ Len(data) = 2
    /\ \A i \in 1..2 : "group" \notin DOMAIN data[i]
    /\ Len(grouped_data) = 1
    /\ grouped_data[1].name = UnknownGroup
    /\ grouped_data[1].rows = data

\* the figma_text the column rules select from a scanned row
C21_SelectedText(cells) ==
    IF Len(cells) = 3 THEN C15_Layout(cells, 0).figma_text
    ELSE IF Len(cells) = 2 THEN ColText(cells, 2)
    ELSE ColText(cells, 1)

\* a row that yields a record: scanned, no header, selected text not blank
C21_Yields(cells) ==
    /\ Len(cells) >= 2
    /\ ~C16_Header(cells)
    /\ Strip(C21_SelectedText(cells)) # <<>>

\* C21: a step over a table row appends one record if and only if the row
\* is scanned, is no header and its selected figma_text is not blank, and
\* appends nothing otherwise, also when the label or the id of the row is
\* filled; every record of the output has a figma_text that is not blank.
C21_EmittedIffText ==
    [][(pc = "rows" /\ pc' = "rows") =>
          /\ IF C21_Yields(ScannedRow)
             THEN /\ Len(csv_data') = Len(csv_data) + 1
                  /\ SubSeq(csv_data', 1, Len(csv_data)) = csv_data
                  /\ csv_data'[Len(csv_data')].figma_text =
                         C21_SelectedText(ScannedRow)
             ELSE csv_data' = csv_data
          /\ \A n \in 1..Len(csv_data') :
                 Strip(csv_data'[n].figma_text) # <<>>]_vars

\* Two rows scanned: the first emitted, the second, with label and id
\* filled and a blank text, dropped.
C21_Witness ==
    /\ pc = "rows" /\ row_idx = 2
    /\ doc[elem_idx + 1].rows[1] = TextRow(<<InferLabel, InferText, InferId>>)
    /\ doc[elem_idx + 1].rows[2] = TextRow(<<InferLabel, <<" ">>, InferId>>)
    /\ Len(csv_data) = 1
    /\ csv_data[1].figma_text = InferText

----------------------------------------------------------------------------
(* The inference scan on documents that interleave headings, header rows,  *)
(* dropped rows, rows with an id of their own (one of them spelled like a  *)
(* synthesized id) and rows whose id is synthesized.                       *)

InferGeneratedLike ==
    <<"g", "e", "n", "e", "r", "a", "t", "e", "d", "_", "2">>

IdRowKinds ==
    {HeaderRow,
     TextRow(<<InferLabel, <<" ">>, InferId>>),
     TextRow(<<InferLabel, InferText, InferId>>),
     TextRow(<<InferLabel, InferText, InferGeneratedLike>>),
     TextRow(<<InferLabel, InferText, <<>>>>),
     TextRow(<<InferLabel, InferText>>)}

IdItems ==
    {Paragraph(StyleHeading1, <<Run(<<"S">>, FALSE, FALSE)>>)}
        \cup {[kind |-> "row", cells |-> r] : r \in IdRowKinds}

IdDocs == {BodyOf(items) : items \in SeqsUpTo(IdItems, MaxItems)}

InitIds ==
    /\ pc = "scan"
    /\ doc \in IdDocs
    /\ preserve_formatting \in BOOLEAN
    /\ csv_rows = <<>>
    /\ elem_idx = 0
    /\ row_idx = 0
    /\ csv_data = <<>>
    /\ current_frame_group = GeneralContent
    /\ ForwardIdle /\ ReverseIdle /\ FileIdle /\ ExtractIdle

SpecIds == InitIds /\ [][NextInfer]_vars

RECURSIVE C22_RowsOf(_)
\* the rows of the tables of a sequence of body elements, in order
C22_RowsOf(elements) ==
    IF elements = <<>> THEN <<>>
    ELSE (IF Head(elements).kind = "tbl" THEN Head(elements).rows ELSE <<>>)
             \o C22_RowsOf(Tail(elements))

\* the rows the scan has passed, in order
C22_Scanned ==
    C22_RowsOf(SubSeq(doc, 1, elem_idx))
        \o (IF pc = "rows" THEN SubSeq(doc[elem_idx + 1].rows, 1, row_idx)
            ELSE <<>>)

\* the rows among them that yield a record
C22_Emitting == SelectSeq(C22_Scanned, C21_Yields)

\* a row whose record gets a synthesized id
C22_Synthesized(cells) ==
    \/ Len(cells) # 3
    \/ /\ ~C15_LooksLikeId(ColText(cells, 3))
       /\ ~C15_LooksLikeId(ColText(cells, 1))
       /\ Strip(ColText(cells, 3)) = <<>>

\* C22: during and after a scan the records are those of the rows that
\* yield one, in order; the record of a row whose id is synthesized is the
\* n-th record exactly when its id is generated_<n>, and so the synthesized
\* ids are pairwise distinct.
C22_SynthesizedIds ==
    LET emitting == C22_Emitting
        synthesized == {n \in 1..Len(emitting) : C22_Synthesized(emitting[n])}
    IN  /\ Len(csv_data) = Len(emitting)
        /\ \A n \in synthesized :
               csv_data[n].id = C9_Prefix \o DecimalText(n)
        /\ \A n, k \in synthesized :
               k # n => csv_data[k].id # csv_data[n].id

\* A scan that is over: a row with the id generated_2 of its own, a
\* heading, a dropped row and a row without an id; the second record has
\* the synthesized id generated_2, the same as the first record's own.
C22_Witness ==
    /\ pc = "inferred"
    /\ Len(doc) = 3
    /\ doc[1].kind = "tbl" /\ Len(doc[1].rows) = 1
    /\ doc[2].kind = "p"
    /\ doc[3].kind = "tbl" /\ Len(doc[3].rows) = 2
    /\ ~C21_Yields(doc[3].rows[1])
    /\ C22_Synthesized(doc[3].rows[2])
    /\ Len(csv_data) = 2
    /\ ~C22_Synthesized(C22_Emitting[1])
    /\ csv_data[1].id = InferGeneratedLike
    /\ csv_data[2].id = InferGeneratedLike

=============================================================================
